---- MODULE Spec2Model ----
(***************************************************************************)
(* The iterative, resumable itinerary generation of ai_travel_planner:     *)
(* services/itinerary_generator.py (generate_itinerary_iteratively,        *)
(* resume_itinerary_generation, _generate_days), the block computation of  *)
(* agents/base.py (TravelAgent.calculate_day_blocks) and the part of       *)
(* app.py that consumes the generator and keeps the state for a resume.    *)
(*                                                                         *)
(* A DayPlan is modelled by its day_number.  A generator step is the code  *)
(* between two yields; the values yielded are logged in `snapshots`.       *)
(***************************************************************************)
EXTENDS Integers, Sequences, FiniteSets, TLC

\* ------------------------------------------------------------------ bounds
\* largest metadata.total_days with an agent that returns the requested days
MaxTotalDays == 10
\* largest metadata.total_days with an agent that returns arbitrary day lists
MaxArbitraryDays == 3
\* largest positive block_size
MaxBlockSize == 4
\* runs of one session: one fresh run and the resumes after it
MaxRuns == 3

\* block_size: int = 3
DefaultBlockSize == 3

\* block_size is an int parameter: a negative one, zero and the positive ones
BlockSizes == {-1, 0} \cup (1..MaxBlockSize)

Agents == {"conforming", "arbitrary"}

VARIABLES
    pc,               \* position of the session / of the running generator
    runs,             \* runs started in this session
    mode,             \* "none", "fresh" or "resume": the kind of the current run
    agent,            \* the behaviour of the agent's generate_day_block
    block_size,       \* the block_size argument of the current run
    metadata,         \* the generator's metadata: None or <<ItineraryMetadata>>
    progress,         \* the generator's GenerationProgress object
    itinerary,        \* the generator's itinerary.days
    existing_days,    \* _generate_days' existing_days argument
    all_days,         \* _generate_days' local all_days
    blocks,           \* _generate_days' local blocks
    idx,              \* index in blocks of the next block of the loop
    snapshots,        \* the tuples yielded by the current run, in order
    calls,            \* the generate_day_block calls of the current run, in order
    metadata_calls,   \* generate_itinerary_metadata calls of the current run
    failure,          \* "none", or the agent operation that raised in this run
    session_itinerary,\* st.session_state.session.itinerary.days
    gen_state,        \* st.session_state.generation_state
    itinerary_is_callers, \* whether the generator's itinerary is the very
                      \* object the caller passed as existing_itinerary
    cdb_args,         \* arguments of a calculate_day_blocks call
    cdb_result,       \* its result
    gen_result,       \* the orchestrator's block computation on the same arguments
    fn,               \* "none", or the function applied to fn_arg
    fn_arg,           \* the argument a function of the package is applied to
    fn_result,        \* what that function returned or raised
    chat_history,     \* st.session_state.session.chat_history
    session_primary,  \* st.session_state.session.destinations.primary
    agent_primary,    \* the primary of the destinations set on the agent
    turn              \* None, or what the last chat turn did

vars == <<pc, runs, mode, agent, block_size, metadata, progress, itinerary,
          existing_days, all_days, blocks, idx, snapshots, calls, metadata_calls,
          failure, session_itinerary, gen_state, itinerary_is_callers,
          cdb_args, cdb_result, gen_result, fn, fn_arg, fn_result,
          chat_history, session_primary, agent_primary, turn>>

runVars == <<pc, runs, mode, agent, block_size, metadata, progress, itinerary,
             existing_days, all_days, blocks, idx, snapshots, calls, metadata_calls,
             failure, session_itinerary, gen_state, itinerary_is_callers>>

blockVars == <<cdb_args, cdb_result, gen_result>>

fnVars == <<fn, fn_arg, fn_result>>

chatVars == <<chat_history, session_primary, agent_primary, turn>>

\* ----------------------------------------------------------------- helpers
None == <<>>

Some(x) == <<x>>

Max(a, b) == IF a >= b THEN a ELSE b

Min(a, b) == IF a <= b THEN a ELSE b

Last(s) == s[Len(s)]

\* the ascending run of day numbers a..b (empty when a > b)
Days(a, b) == [i \in 1..Max(0, b - a + 1) |-> a + i - 1]

Reverse(s) == [i \in 1..Len(s) |-> s[Len(s) + 1 - i]]

\* the outcome of a call: the value returned, or the exception raised
Returned(v) == [raised |-> FALSE, value |-> v]

ValueError == [raised |-> TRUE, value |-> <<>>]

\* Python's range(start, stop, step) as a list; step = 0 raises ValueError
RangeLen(start, stop, step) ==
    IF step > 0
    THEN IF start < stop THEN ((stop - start - 1) \div step) + 1 ELSE 0
    ELSE IF start > stop THEN ((start - stop - 1) \div (0 - step)) + 1 ELSE 0

\* a range that leaves out the last day: range(start, stop - 1, step)
MutRangeStopsEarly(start, stop, step) ==
    [i \in 1..RangeLen(start, stop - 1, step) |-> start + (i - 1) * step]

PyRange(start, stop, step) ==
    [i \in 1..RangeLen(start, stop, step) |-> start + (i - 1) * step]

\* a block end that is not cut at total_days
MutBlockAtUncut(start, total_days, size) == <<start, start + size - 1>>

\* one pair of the block list: (start, min(start + block_size - 1, total_days))
BlockAt(start, total_days, size) == <<start, Min(start + size - 1, total_days)>>

\* TravelAgent.calculate_day_blocks
CalculateDayBlocks(total_days, size) ==
    IF size = 0
    THEN ValueError
    ELSE LET starts == PyRange(1, total_days + 1, size)
         IN  Returned([i \in 1..Len(starts) |-> BlockAt(starts[i], total_days, size)])

\* a resume that computes its blocks from day 1 again
MutBlocksFromDayOne(start_from_day, total_days, size) == CalculateDayBlocks(total_days, size)

\* _generate_days, lines 153-157: the remaining blocks from start_from_day on
RemainingBlocks(start_from_day, total_days, size) ==
    IF size = 0
    THEN ValueError
    ELSE LET starts == PyRange(start_from_day, total_days + 1, size)
         IN  Returned([i \in 1..Len(starts) |-> BlockAt(starts[i], total_days, size)])

\* sorted(days, key=day_number): a stable insertion into an ascending list
RECURSIVE SortedByDayNumber(_)
Insert(sorted, d) ==
    LET k == Cardinality({i \in 1..Len(sorted) : sorted[i] <= d})
    IN  SubSeq(sorted, 1, k) \o <<d>> \o SubSeq(sorted, k + 1, Len(sorted))

\* the days kept in the order the agent returned them
MutUnsorted(days) == days

SortedByDayNumber(days) ==
    IF days = <<>>
    THEN <<>>
    ELSE Insert(SortedByDayNumber(SubSeq(days, 1, Len(days) - 1)), Last(days))

\* the new days replacing the accumulated ones
MutExtendReplaces(days, new_days) == new_days

\* all_days.extend(new_days)
Extend(days, new_days) == days \o new_days

\* total_days = max(1, metadata.total_days)
TotalDays(md) == Max(1, md.total_days)

\* Itinerary() and Itinerary.from_metadata(metadata): no days yet
EmptyItinerary == <<>>

FromMetadata(md) == <<>>

\* existing_itinerary.model_copy(deep=True): a new object with equal days
DeepCopy(days) == days

\* a failure that is never resumable
MutFailureStatusError(completed_days) == "error"

\* a failure that always counts as resumable
MutFailureStatusPartial(completed_days) == "partial"

\* "partial" if progress.completed_days > 0 else "error"
FailureStatus(completed_days) == IF completed_days > 0 THEN "partial" ELSE "error"

\* a metadata failure that records no message
MutNoMetadataMessage == None

MetadataErrorMessage == <<"Failed to generate metadata">>

DayBlockErrorMessage(start_day, end_day) == <<"Failed to generate days", start_day, end_day>>

\* the tuple a yield hands to the caller, as the caller sees it at that moment
Snapshot(p, days, md) == [progress |-> p, days |-> days, metadata |-> md]

\* GenerationState(): nothing to resume
NoGenerationState == [metadata |-> None, status |-> "none", completed_days |-> 0]

\* GenerationState.can_resume
CanResume(gs) == gs.status = "partial" /\ gs.completed_days > 0

\* the lists generate_day_block may return for the request (start_day, end_day):
\* the adapters return whatever days the model's response holds
AgentReturns(a, start_day, end_day) ==
    IF a = "conforming"
    THEN {Days(start_day, end_day)}
    ELSE {Days(start_day, end_day),
          Reverse(Days(start_day, end_day)),
          Days(start_day, end_day - 1),
          <<>>,
          Days(start_day, end_day + 1),
          Days(start_day, end_day) \o <<start_day>>,
          Days(Max(1, start_day - 1), end_day)}

\* -------------------------------------------------------------------- Init
InitRun ==
    /\ pc = "idle"
    /\ runs = 0
    /\ mode = "none"
    /\ block_size = DefaultBlockSize
    /\ metadata = None
    /\ progress = [total_days |-> 0, completed_days |-> 0, current_block_start |-> 0,
                   current_block_end |-> 0, status |-> "generating_metadata",
                   error_message |-> None]
    /\ itinerary = EmptyItinerary
    /\ existing_days = <<>>
    /\ all_days = <<>>
    /\ blocks = <<>>
    /\ idx = 0
    /\ snapshots = <<>>
    /\ calls = <<>>
    /\ metadata_calls = 0
    /\ failure = "none"
    /\ session_itinerary = EmptyItinerary
    /\ gen_state = NoGenerationState
    /\ itinerary_is_callers = FALSE

NoBlockCall ==
    /\ cdb_args = <<0, 0>>
    /\ cdb_result = None
    /\ gen_result = None

NoFunctionCall ==
    /\ fn = "none"
    /\ fn_arg = None
    /\ fn_result = None

\* a session nobody chatted in: PlannerSession's defaults
NoChatTurn ==
    /\ chat_history = <<>>
    /\ session_primary = None
    /\ agent_primary = None
    /\ turn = None

Init ==
    /\ InitRun
    /\ NoChatTurn
    /\ agent \in Agents
    /\ NoBlockCall
    /\ NoFunctionCall

\* ----------------------------------------------------------------- actions
\* what a run starts from: nothing called, nothing yielded
StartRun(kind, size) ==
    /\ runs' = runs + 1
    /\ mode' = kind
    /\ block_size' = size
    /\ blocks' = <<>>
    /\ idx' = 0
    /\ calls' = <<>>

\* generate_itinerary_iteratively up to its first yield, the metadata call
\* returning an ItineraryMetadata with total_days = td (lines 37-59)
MetadataReturns(size, td) ==
    /\ pc = "idle"
    /\ runs = 0
    /\ StartRun("fresh", size)
    /\ LET md == [total_days |-> td]
           p  == [total_days |-> TotalDays(md), completed_days |-> 0,
                  current_block_start |-> 0, current_block_end |-> 0,
                  status |-> "generating_days", error_message |-> None]
       IN  /\ metadata' = Some(md)
           /\ itinerary' = FromMetadata(md)
           /\ progress' = p
           /\ snapshots' = <<Snapshot(p, FromMetadata(md), Some(md))>>
    /\ metadata_calls' = 1
    /\ failure' = "none"
    /\ existing_days' = <<>>
    /\ all_days' = <<>>
    /\ pc' = "generate_days"
    /\ itinerary_is_callers' = FALSE
    /\ UNCHANGED <<agent, session_itinerary, gen_state>>
    /\ UNCHANGED blockVars
    /\ UNCHANGED fnVars
    /\ UNCHANGED chatVars

\* generate_itinerary_iteratively when the metadata call raises (lines 37-52, 61-65)
MetadataRaises(size) ==
    /\ pc = "idle"
    /\ runs = 0
    /\ StartRun("fresh", size)
    /\ LET p == [total_days |-> 0, completed_days |-> 0,
                 current_block_start |-> 0, current_block_end |-> 0,
                 status |-> "error", error_message |-> MetadataErrorMessage]
       IN  /\ metadata' = None
           /\ itinerary' = EmptyItinerary
           /\ progress' = p
           /\ snapshots' = <<Snapshot(p, EmptyItinerary, None)>>
    /\ metadata_calls' = 1
    /\ failure' = "metadata"
    /\ existing_days' = <<>>
    /\ all_days' = <<>>
    /\ pc' = "done"
    /\ itinerary_is_callers' = FALSE
    /\ UNCHANGED <<agent, session_itinerary, gen_state>>
    /\ UNCHANGED blockVars
    /\ UNCHANGED fnVars
    /\ UNCHANGED chatVars

\* a resume that asks the agent for the metadata again
MutResumeRegeneratesMetadata(size) ==
    /\ pc = "idle"
    /\ runs >= 1
    /\ runs < MaxRuns
    /\ CanResume(gen_state)
    /\ session_itinerary # <<>>
    /\ StartRun("resume", size)
    /\ LET md == [total_days |-> gen_state.metadata[1].total_days + 1]
           completed_days == Len(session_itinerary)
           p  == [total_days |-> TotalDays(md), completed_days |-> completed_days,
                  current_block_start |-> completed_days + 1, current_block_end |-> 0,
                  status |-> "generating_days", error_message |-> None]
       IN  /\ metadata' = Some(md)
           /\ itinerary' = DeepCopy(session_itinerary)
           /\ progress' = p
           /\ snapshots' = <<Snapshot(p, DeepCopy(session_itinerary), Some(md))>>
    /\ metadata_calls' = 1
    /\ failure' = "none"
    /\ existing_days' = session_itinerary
    /\ all_days' = <<>>
    /\ pc' = "generate_days"
    /\ itinerary_is_callers' = FALSE
    /\ UNCHANGED <<agent, session_itinerary, gen_state>>
    /\ UNCHANGED blockVars
    /\ UNCHANGED fnVars
    /\ UNCHANGED chatVars

\* a resume that goes on with the caller's Itinerary object instead of a copy
MutResumeWithoutCopy(size) ==
    /\ pc = "idle"
    /\ runs >= 1
    /\ runs < MaxRuns
    /\ CanResume(gen_state)
    /\ session_itinerary # <<>>
    /\ StartRun("resume", size)
    /\ LET md == gen_state.metadata[1]
           completed_days == Len(session_itinerary)
           p  == [total_days |-> TotalDays(md), completed_days |-> completed_days,
                  current_block_start |-> completed_days + 1, current_block_end |-> 0,
                  status |-> "generating_days", error_message |-> None]
       IN  /\ metadata' = Some(md)
           /\ itinerary' = DeepCopy(session_itinerary)
           /\ progress' = p
           /\ snapshots' = <<Snapshot(p, DeepCopy(session_itinerary), Some(md))>>
    /\ metadata_calls' = 0
    /\ failure' = "none"
    /\ existing_days' = session_itinerary
    /\ all_days' = <<>>
    /\ pc' = "generate_days"
    /\ itinerary_is_callers' = TRUE
    /\ UNCHANGED <<agent, session_itinerary, gen_state>>
    /\ UNCHANGED blockVars
    /\ UNCHANGED fnVars
    /\ UNCHANGED chatVars

\* resume_itinerary_generation up to its first yield (lines 102-119), called by
\* the app with the saved metadata and the session's itinerary (app.py 867-878)
Resume(size) ==
    /\ pc = "idle"
    /\ runs >= 1
    /\ runs < MaxRuns
    /\ CanResume(gen_state)
    /\ session_itinerary # <<>>
    /\ StartRun("resume", size)
    /\ LET md == gen_state.metadata[1]
           completed_days == Len(session_itinerary)
           p  == [total_days |-> TotalDays(md), completed_days |-> completed_days,
                  current_block_start |-> completed_days + 1, current_block_end |-> 0,
                  status |-> "generating_days", error_message |-> None]
       IN  /\ metadata' = Some(md)
           /\ itinerary' = DeepCopy(session_itinerary)
           /\ progress' = p
           /\ snapshots' = <<Snapshot(p, DeepCopy(session_itinerary), Some(md))>>
    /\ metadata_calls' = 0
    /\ failure' = "none"
    /\ existing_days' = session_itinerary
    /\ all_days' = <<>>
    /\ pc' = "generate_days"
    /\ itinerary_is_callers' = FALSE
    /\ UNCHANGED <<agent, session_itinerary, gen_state>>
    /\ UNCHANGED blockVars
    /\ UNCHANGED fnVars
    /\ UNCHANGED chatVars

\* _generate_days that starts its list of days empty
MutGenerateDaysForgetsExisting ==
    /\ pc = "generate_days"
    /\ all_days' = <<>>
    /\ LET r == RemainingBlocks(Len(existing_days) + 1, progress.total_days, block_size)
       IN  IF r.raised
           THEN /\ pc' = "raised"
                /\ UNCHANGED <<blocks, idx, progress, snapshots>>
           ELSE IF r.value = <<>>
           THEN /\ blocks' = r.value
                /\ progress' = [progress EXCEPT !.status = "complete"]
                /\ snapshots' = Append(snapshots, Snapshot(progress', itinerary, metadata))
                /\ pc' = "done"
                /\ UNCHANGED idx
           ELSE /\ blocks' = r.value
                /\ idx' = 1
                /\ pc' = "block"
                /\ UNCHANGED <<progress, snapshots>>
    /\ UNCHANGED <<runs, mode, agent, block_size, metadata, itinerary, existing_days,
                   calls, metadata_calls, failure, session_itinerary, gen_state,
                   itinerary_is_callers>>
    /\ UNCHANGED blockVars
    /\ UNCHANGED fnVars
    /\ UNCHANGED chatVars

\* _generate_days up to the block loop (lines 149-163)
GenerateDays ==
    /\ pc = "generate_days"
    /\ all_days' = existing_days
    /\ LET r == RemainingBlocks(Len(existing_days) + 1, progress.total_days, block_size)
       IN  IF r.raised
           THEN \* range() raises out of the generator
                /\ pc' = "raised"
                /\ UNCHANGED <<blocks, idx, progress, snapshots>>
           ELSE IF r.value = <<>>
           THEN \* already complete
                /\ blocks' = r.value
                /\ progress' = [progress EXCEPT !.status = "complete"]
                /\ snapshots' = Append(snapshots, Snapshot(progress', itinerary, metadata))
                /\ pc' = "done"
                /\ UNCHANGED idx
           ELSE /\ blocks' = r.value
                /\ idx' = 1
                /\ pc' = "block"
                /\ UNCHANGED <<progress, snapshots>>
    /\ UNCHANGED <<runs, mode, agent, block_size, metadata, itinerary, existing_days,
                   calls, metadata_calls, failure, session_itinerary, gen_state,
                   itinerary_is_callers>>
    /\ UNCHANGED blockVars
    /\ UNCHANGED fnVars
    /\ UNCHANGED chatVars

\* the record of one generate_day_block call
Call(start_day, end_day, previous_days, raised, days) ==
    [start_day |-> start_day, end_day |-> end_day, previous_days |-> previous_days,
     raised |-> raised, days |-> days]

\* one iteration of the block loop, generate_day_block returning new_days
\* (lines 166-194)
DayBlockReturns(new_days) ==
    /\ pc = "block"
    /\ LET start_day == blocks[idx][1]
           end_day   == blocks[idx][2]
           days      == Extend(all_days, new_days)
           completed == Len(days)
           p == [progress EXCEPT !.current_block_start = start_day,
                                 !.current_block_end = end_day,
                                 !.completed_days = completed,
                                 !.status = IF completed >= progress.total_days
                                            THEN "complete" ELSE @]
       IN  /\ new_days \in AgentReturns(agent, start_day, end_day)
           /\ calls' = Append(calls, Call(start_day, end_day, all_days, FALSE, new_days))
           /\ all_days' = days
           /\ itinerary' = SortedByDayNumber(days)
           /\ session_itinerary' = IF itinerary_is_callers THEN itinerary'
                                  ELSE session_itinerary
           /\ progress' = p
           /\ snapshots' = Append(snapshots, Snapshot(p, itinerary', metadata))
    /\ idx' = idx + 1
    /\ pc' = IF idx = Len(blocks) THEN "after_loop" ELSE "block"
    /\ UNCHANGED <<runs, mode, agent, block_size, metadata, existing_days, blocks,
                   metadata_calls, failure, gen_state, itinerary_is_callers>>
    /\ UNCHANGED blockVars
    /\ UNCHANGED fnVars
    /\ UNCHANGED chatVars

\* the block loop without its except clause: the exception leaves the generator
MutDayBlockRaisesUncaught ==
    /\ pc = "block"
    /\ calls' = Append(calls, Call(blocks[idx][1], blocks[idx][2], all_days, TRUE, <<>>))
    /\ progress' = [progress EXCEPT !.current_block_start = blocks[idx][1],
                                    !.current_block_end = blocks[idx][2]]
    /\ failure' = "day_block"
    /\ pc' = "raised"
    /\ UNCHANGED <<runs, mode, agent, block_size, metadata, itinerary, existing_days,
                   all_days, blocks, idx, snapshots, metadata_calls, session_itinerary,
                   gen_state, itinerary_is_callers>>
    /\ UNCHANGED blockVars
    /\ UNCHANGED fnVars
    /\ UNCHANGED chatVars

\* the except clause without its return: the loop goes on to the next block
MutDayBlockRaisesContinues ==
    /\ pc = "block"
    /\ LET start_day == blocks[idx][1]
           end_day   == blocks[idx][2]
           p == [progress EXCEPT !.current_block_start = start_day,
                                 !.current_block_end = end_day,
                                 !.status = FailureStatus(progress.completed_days),
                                 !.error_message = DayBlockErrorMessage(start_day, end_day)]
       IN  /\ calls' = Append(calls, Call(start_day, end_day, all_days, TRUE, <<>>))
           /\ progress' = p
           /\ snapshots' = Append(snapshots, Snapshot(p, itinerary, metadata))
    /\ failure' = "day_block"
    /\ idx' = idx + 1
    /\ pc' = IF idx = Len(blocks) THEN "after_loop" ELSE "block"
    /\ UNCHANGED <<runs, mode, agent, block_size, metadata, itinerary, existing_days,
                   all_days, blocks, metadata_calls, session_itinerary, gen_state,
                   itinerary_is_callers>>
    /\ UNCHANGED blockVars
    /\ UNCHANGED fnVars
    /\ UNCHANGED chatVars

\* an except clause that tries the same block again
MutDayBlockRaisesRetries ==
    /\ pc = "block"
    /\ LET start_day == blocks[idx][1]
           end_day   == blocks[idx][2]
           p == [progress EXCEPT !.current_block_start = start_day,
                                 !.current_block_end = end_day,
                                 !.status = FailureStatus(progress.completed_days),
                                 !.error_message = DayBlockErrorMessage(start_day, end_day)]
       IN  /\ calls' = Append(calls, Call(start_day, end_day, all_days, TRUE, <<>>))
           /\ progress' = p
           /\ snapshots' = Append(snapshots, Snapshot(p, itinerary, metadata))
    /\ failure' = "day_block"
    /\ pc' = "block"
    /\ UNCHANGED <<runs, mode, agent, block_size, metadata, itinerary, existing_days,
                   all_days, blocks, idx, metadata_calls, session_itinerary, gen_state,
                   itinerary_is_callers>>
    /\ UNCHANGED blockVars
    /\ UNCHANGED fnVars
    /\ UNCHANGED chatVars

\* one iteration of the block loop, generate_day_block raising (lines 166-179,
\* 196-201)
DayBlockRaises ==
    /\ pc = "block"
    /\ LET start_day == blocks[idx][1]
           end_day   == blocks[idx][2]
           p == [progress EXCEPT !.current_block_start = start_day,
                                 !.current_block_end = end_day,
                                 !.status = FailureStatus(progress.completed_days),
                                 !.error_message = DayBlockErrorMessage(start_day, end_day)]
       IN  /\ calls' = Append(calls, Call(start_day, end_day, all_days, TRUE, <<>>))
           /\ progress' = p
           /\ snapshots' = Append(snapshots, Snapshot(p, itinerary, metadata))
    /\ failure' = "day_block"
    /\ pc' = "done"
    /\ UNCHANGED <<runs, mode, agent, block_size, metadata, itinerary, existing_days,
                   all_days, blocks, idx, metadata_calls, session_itinerary, gen_state,
                   itinerary_is_callers>>
    /\ UNCHANGED blockVars
    /\ UNCHANGED fnVars
    /\ UNCHANGED chatVars

\* after the loop (lines 203-206)
AfterLoop ==
    /\ pc = "after_loop"
    /\ IF progress.status \notin {"error", "partial"}
       THEN /\ progress' = [progress EXCEPT !.status = "complete"]
            /\ snapshots' = Append(snapshots, Snapshot(progress', itinerary, metadata))
       ELSE UNCHANGED <<progress, snapshots>>
    /\ pc' = "done"
    /\ UNCHANGED <<runs, mode, agent, block_size, metadata, itinerary, existing_days,
                   all_days, blocks, idx, calls, metadata_calls, failure,
                   session_itinerary, gen_state, itinerary_is_callers>>
    /\ UNCHANGED blockVars
    /\ UNCHANGED fnVars
    /\ UNCHANGED chatVars

\* the app's loop over the generator, seen once the generator has ended
\* (app.py 898-954, and 975-976 when the generator raised)
SomeComplete == \E i \in 1..Len(snapshots) : snapshots[i].progress.status = "complete"

AppStoresResult ==
    /\ pc \in {"done", "raised"}
    /\ LET last == Last(snapshots).progress
           stopped == last.status \in {"error", "partial"}
       IN  IF pc = "raised"
           THEN UNCHANGED <<session_itinerary, gen_state>>
           ELSE /\ session_itinerary' =
                      IF SomeComplete \/ (stopped /\ last.completed_days > 0)
                      THEN itinerary ELSE session_itinerary
                /\ gen_state' =
                      IF stopped /\ last.completed_days > 0
                      THEN [metadata |-> metadata, status |-> last.status,
                            completed_days |-> last.completed_days]
                      ELSE IF SomeComplete THEN NoGenerationState ELSE gen_state
    /\ pc' = "idle"
    /\ UNCHANGED <<runs, mode, agent, block_size, metadata, progress, itinerary,
                   existing_days, all_days, blocks, idx, snapshots, calls,
                   metadata_calls, failure, itinerary_is_callers>>
    /\ UNCHANGED blockVars
    /\ UNCHANGED fnVars
    /\ UNCHANGED chatVars

\* metadata.total_days values the bounds admit for the agent of this session
TotalDaysOfAgent == 0..(IF agent = "arbitrary" THEN MaxArbitraryDays ELSE MaxTotalDays)

\* what the agent may return to the call the loop is about to make
PossibleReturns ==
    IF pc = "block" THEN AgentReturns(agent, blocks[idx][1], blocks[idx][2]) ELSE {}

Next ==
    \/ \E size \in BlockSizes, td \in TotalDaysOfAgent : MetadataReturns(size, td)
    \/ \E size \in BlockSizes : MetadataRaises(size)
    \/ \E size \in BlockSizes : Resume(size)
    \/ GenerateDays
    \/ \E new_days \in PossibleReturns : DayBlockReturns(new_days)
    \/ DayBlockRaises
    \/ AfterLoop
    \/ AppStoresResult

Spec == Init /\ [][Next]_vars

\* the agent answers the call the loop makes: it returns or it raises
AgentAnswers ==
    \/ DayBlockRaises
    \/ \E new_days \in PossibleReturns : DayBlockReturns(new_days)

\* the session when the consumer keeps iterating the generator and every agent
\* call returns or raises
SpecFair ==
    /\ Spec
    /\ WF_vars(GenerateDays)
    /\ WF_vars(AgentAnswers)
    /\ WF_vars(AfterLoop)

\* ------------------------------------ a caller that resumes from any last run
\* resume_itinerary_generation up to its first yield (lines 102-119), called
\* with the metadata and the itinerary of the last snapshot of the run before
ResumeFromLastSnapshot(size) ==
    /\ pc \in {"done", "raised"}
    /\ runs < MaxRuns
    /\ Last(snapshots).metadata # None
    /\ StartRun("resume", size)
    /\ LET md == Last(snapshots).metadata[1]
           existing_itinerary == Last(snapshots).days
           completed_days == Len(existing_itinerary)
           p  == [total_days |-> TotalDays(md), completed_days |-> completed_days,
                  current_block_start |-> completed_days + 1, current_block_end |-> 0,
                  status |-> "generating_days", error_message |-> None]
       IN  /\ metadata' = Some(md)
           /\ itinerary' = DeepCopy(existing_itinerary)
           /\ progress' = p
           /\ snapshots' = <<Snapshot(p, DeepCopy(existing_itinerary), Some(md))>>
           /\ session_itinerary' = existing_itinerary
           /\ existing_days' = existing_itinerary
    /\ metadata_calls' = 0
    /\ failure' = "none"
    /\ all_days' = <<>>
    /\ pc' = "generate_days"
    /\ itinerary_is_callers' = FALSE
    /\ UNCHANGED <<agent, gen_state>>
    /\ UNCHANGED blockVars
    /\ UNCHANGED fnVars
    /\ UNCHANGED chatVars

NextDirect ==
    \/ \E size \in BlockSizes, td \in TotalDaysOfAgent : MetadataReturns(size, td)
    \/ \E size \in BlockSizes : MetadataRaises(size)
    \/ \E size \in BlockSizes : ResumeFromLastSnapshot(size)
    \/ GenerateDays
    \/ \E new_days \in PossibleReturns : DayBlockReturns(new_days)
    \/ DayBlockRaises
    \/ AfterLoop

SpecDirect == Init /\ [][NextDirect]_vars

\* ------------------------------------------------- the block computation alone
\* calculate_day_blocks and the orchestrator's computation applied to drawn
\* arguments (total_days, block_size)
TotalDaysArgs == (-1)..MaxTotalDays

InitBlocks ==
    /\ InitRun
    /\ NoChatTurn
    /\ agent = "conforming"
    /\ cdb_args \in TotalDaysArgs \X BlockSizes
    /\ cdb_result = None
    /\ gen_result = None
    /\ NoFunctionCall

CalculateDayBlocksCall ==
    /\ cdb_result = None
    /\ cdb_result' = Some(CalculateDayBlocks(cdb_args[1], cdb_args[2]))
    /\ UNCHANGED <<cdb_args, gen_result>>
    /\ UNCHANGED runVars
    /\ UNCHANGED fnVars
    /\ UNCHANGED chatVars

GenerateDaysBlocksCall ==
    /\ gen_result = None
    /\ gen_result' = Some(RemainingBlocks(1, cdb_args[1], cdb_args[2]))
    /\ UNCHANGED <<cdb_args, cdb_result>>
    /\ UNCHANGED runVars
    /\ UNCHANGED fnVars
    /\ UNCHANGED chatVars

NextBlocks ==
    \/ CalculateDayBlocksCall
    \/ GenerateDaysBlocksCall

SpecBlocks == InitBlocks /\ [][NextBlocks]_vars

\* --------------------------------------------------- the activity category
\* class ActivityType(str, Enum): the values of its members
ActivityTypeValues ==
    {"sightseeing", "adventure", "dining", "transport", "accommodation",
     "relaxation", "wildlife", "cultural", "shopping", "nature", "beach",
     "food", "other"}

\* ACTIVITY_TYPE_ALIASES, as (key, value) pairs
ActivityTypeAliases ==
    {<<"culture", "cultural">>, <<"food", "dining">>,
     <<"restaurant", "dining">>, <<"eating", "dining">>,
     <<"travel", "transport">>, <<"flight", "transport">>,
     <<"bus", "transport">>, <<"train", "transport">>,
     <<"taxi", "transport">>, <<"hotel", "accommodation">>,
     <<"stay", "accommodation">>, <<"lodge", "accommodation">>,
     <<"hostel", "accommodation">>, <<"rest", "relaxation">>,
     <<"spa", "relaxation">>, <<"beach", "relaxation">>,
     <<"hike", "adventure">>, <<"hiking", "adventure">>,
     <<"trek", "adventure">>, <<"trekking", "adventure">>,
     <<"tour", "sightseeing">>, <<"visit", "sightseeing">>,
     <<"explore", "sightseeing">>, <<"museum", "cultural">>,
     <<"temple", "cultural">>, <<"market", "shopping">>,
     <<"animals", "wildlife">>, <<"safari", "wildlife">>,
     <<"jungle", "wildlife">>, <<"rainforest", "wildlife">>,
     <<"nature", "wildlife">>, <<"snorkeling", "adventure">>,
     <<"diving", "adventure">>, <<"water", "adventure">>}

AliasKeys == {a[1] : a \in ActivityTypeAliases}

AliasOf(word) == (CHOOSE a \in ActivityTypeAliases : a[1] = word)[2]

\* a str value: its lower-case, stripped text, whether it is written with
\* upper-case letters, and whether whitespace surrounds it
Str(text, upper, padded) == [text |-> text, upper |-> upper, padded |-> padded]

Plain(text) == Str(text, FALSE, FALSE)

\* str.lower() and str.strip()
Lower(v) == [v EXCEPT !.upper = FALSE]

Strip(v) == [v EXCEPT !.padded = FALSE]

\* ActivityType(value): the member with that value, or ValueError
ActivityTypeOf(v) ==
    IF ~v.upper /\ ~v.padded /\ v.text \in ActivityTypeValues
    THEN Returned(v.text)
    ELSE ValueError

\* the lookup without the except clause: an unknown value raises
MutNormalizeWithoutDefault(v) ==
    LET v_lower == Strip(Lower(v))
        aliased == IF v_lower \in {Plain(k) : k \in AliasKeys}
                   THEN Plain(AliasOf(v_lower.text)) ELSE v_lower
    IN  ActivityTypeOf(aliased)

\* Activity.normalize_activity_type on a str
NormalizeActivityType(v) ==
    LET v_lower == Strip(Lower(v))
        aliased == IF v_lower \in {Plain(k) : k \in AliasKeys}
                   THEN Plain(AliasOf(v_lower.text)) ELSE v_lower
        member  == ActivityTypeOf(aliased)
    IN  IF member.raised THEN Returned("sightseeing") ELSE member

\* the member's value as a persisted document holds it (model_dump, mode json)
SerializeActivityType(member) == Plain(member)

\* the strings the coercion is applied to: every enum value and alias, an
\* unrecognized word, digits and the empty string, in any casing and padding
CategoryInputs ==
    {Str(w, u, p) : w \in (ActivityTypeValues \cup AliasKeys \cup {"kayaking"}),
                    u \in BOOLEAN, p \in BOOLEAN}
    \cup {Str(w, FALSE, p) : w \in {"", "42"}, p \in BOOLEAN}

InitCategory ==
    /\ InitRun
    /\ NoChatTurn
    /\ agent = "conforming"
    /\ NoBlockCall
    /\ fn = "none"
    /\ fn_arg \in CategoryInputs
    /\ fn_result = None

\* the field validator applied to a str
NormalizeActivityTypeCall ==
    /\ fn = "none"
    /\ fn' = "normalize_activity_type"
    /\ fn_result' = NormalizeActivityType(fn_arg)
    /\ UNCHANGED fn_arg
    /\ UNCHANGED <<runVars, blockVars, chatVars>>

\* an Activity of category fn_arg written to a document and validated again
ActivityRoundTrip ==
    /\ fn = "none"
    /\ ActivityTypeOf(fn_arg) = Returned(fn_arg.text)
    /\ fn' = "round_trip"
    /\ fn_result' = NormalizeActivityType(SerializeActivityType(fn_arg.text))
    /\ UNCHANGED fn_arg
    /\ UNCHANGED <<runVars, blockVars, chatVars>>

NextCategory ==
    \/ NormalizeActivityTypeCall
    \/ ActivityRoundTrip

SpecCategory == InitCategory /\ [][NextCategory]_vars

\* ------------------------------------------- rule-based destination detection
\* A text is the sequence of its words (the text itself joins them with single
\* spaces); a capture of a pattern is the sequence of the words it spans.
MaxWords == 4

Vocabulary ==
    {"plan", "a", "trip", "vacation", "visiting", "want", "go", "to", "in",
     "the", "There", "Tokyo"}

\* str.lower() of a word, and the matching of re.IGNORECASE
LowerWord(w) ==
    CASE w = "There" -> "there"
      [] w = "Tokyo" -> "tokyo"
      [] OTHER -> w

\* a word that [A-Z][a-zA-Z]+ matches whole under re.IGNORECASE: letters only,
\* at least two of them
IsName(w) == w \in (Vocabulary \ {"a"})

Req(words) == [words |-> words, optional |-> FALSE]

Opt(words) == [words |-> words, optional |-> TRUE]

TravelWords ==
    {"trip", "travel", "traveling", "travelling", "go", "going", "visit",
     "visiting", "vacation", "holiday", "journey"}

\* DESTINATION_PATTERNS: the words before the group; the group itself is a
\* run of names
DESTINATION_PATTERNS ==
    << [prefix |-> <<Req(TravelWords), Req({"to"})>>, group |-> "names"],
       [prefix |-> <<Req(TravelWords), Req({"in"})>>, group |-> "names"],
       [prefix |-> <<Req({"plan", "planning", "book", "booking"}), Opt({"a"}),
                     Req({"trip", "travel", "vacation", "holiday"}),
                     Req({"to"})>>, group |-> "names"],
       [prefix |-> <<Req({"want", "like", "love"}), Req({"to"}),
                     Req({"go", "visit", "travel", "see"})>>,
        group |-> "names"],
       [prefix |-> <<Opt({"we", "we're"}), Opt({"are"}), Req({"visiting"})>>,
        group |-> "names"] >>

\* simple_patterns: the group is one word and, if there is one, the next
simple_patterns ==
    << [prefix |-> <<Req({"trip"}), Req({"to"})>>, group |-> "words"],
       [prefix |-> <<Req({"visit", "visiting"})>>, group |-> "words"],
       [prefix |-> <<Req({"travel", "traveling"}), Req({"to"})>>,
        group |-> "words"],
       [prefix |-> <<Req({"going"}), Req({"to"})>>, group |-> "words"],
       [prefix |-> <<Req({"vacation"}), Req({"in"})>>, group |-> "words"],
       [prefix |-> <<Req({"holiday"}), Req({"in"})>>, group |-> "words"] >>

Stopwords ==
    {"the", "a", "an", "my", "our", "your", "their", "be", "go", "see", "do",
     "have", "there", "here", "somewhere", "anywhere"}

RECURSIVE MatchPrefix(_, _, _)
\* the index after the prefix matched at word i, or 0 when it does not match
MatchPrefix(prefix, words, i) ==
    IF prefix = <<>> THEN i
    ELSE LET head == Head(prefix)
             taken == IF i <= Len(words) /\ LowerWord(words[i]) \in head.words
                      THEN MatchPrefix(Tail(prefix), words, i + 1)
                      ELSE 0
         IN  IF taken # 0 THEN taken
             ELSE IF head.optional THEN MatchPrefix(Tail(prefix), words, i)
             ELSE 0

RECURSIVE NamesEnd(_, _)
\* the index after the run of names that starts at word i
NamesEnd(words, i) ==
    IF i <= Len(words) /\ IsName(words[i]) THEN NamesEnd(words, i + 1) ELSE i

\* the index after the group that starts at word i, or i when there is none
GroupEnd(group, words, i) ==
    IF group = "names" THEN NamesEnd(words, i)
    ELSE Min(i + 2, Len(words) + 1)

\* one match of a pattern at word i: its capture and the index after it
MatchAt(pattern, words, i) ==
    LET start == MatchPrefix(pattern.prefix, words, i)
        end   == GroupEnd(pattern.group, words, start)
    IN  IF start = 0 \/ start > Len(words) \/ end = start THEN None
        ELSE Some([capture |-> SubSeq(words, start, end - 1), end |-> end])

RECURSIVE FindAll(_, _, _)
\* re.findall(pattern, text, re.IGNORECASE), scanning from word i
FindAll(pattern, words, i) ==
    IF i > Len(words) THEN <<>>
    ELSE LET m == MatchAt(pattern, words, i)
         IN  IF m = None THEN FindAll(pattern, words, i + 1)
             ELSE <<m[1].capture>> \o FindAll(pattern, words, m[1].end)

\* m.lower() of a capture
LowerCapture(m) == [k \in 1..Len(m) |-> LowerWord(m[k])]

IsStopword(m) == Len(m) = 1 /\ LowerCapture(m)[1] \in Stopwords

RECURSIVE Filtered(_)
Filtered(matches) ==
    IF matches = <<>> THEN <<>>
    ELSE IF IsStopword(Head(matches)) THEN Filtered(Tail(matches))
    ELSE <<Head(matches)>> \o Filtered(Tail(matches))

RECURSIVE Unique(_, _)
\* deduplicate while preserving order
Unique(destinations, seen) ==
    IF destinations = <<>> THEN <<>>
    ELSE LET dest == Head(destinations)
             dest_lower == LowerCapture(dest)
         IN  IF dest_lower \in seen THEN Unique(Tail(destinations), seen)
             ELSE <<dest>> \o Unique(Tail(destinations),
                                     seen \cup {dest_lower})

RECURSIVE ExtendMatches(_, _, _)
\* destinations after the loop over patterns k.., each extending the list
ExtendMatches(patterns, k, words) ==
    IF k > Len(patterns) THEN <<>>
    ELSE FindAll(patterns[k], words, 1) \o ExtendMatches(patterns, k + 1, words)

RECURSIVE ExtendFiltered(_, _, _)
ExtendFiltered(patterns, k, words) ==
    IF k > Len(patterns) THEN <<>>
    ELSE Filtered(FindAll(patterns[k], words, 1))
             \o ExtendFiltered(patterns, k + 1, words)

\* DestinationDetector.extract_from_text
ExtractFromText(words) ==
    Unique(ExtendMatches(DESTINATION_PATTERNS, 1, words)
               \o ExtendFiltered(simple_patterns, 1, words), {})

RECURSIVE Texts(_)
Texts(n) ==
    IF n = 0 THEN {<<>>}
    ELSE Texts(n - 1) \cup {Append(t, w) : t \in Texts(n - 1), w \in Vocabulary}

InitDetect ==
    /\ InitRun
    /\ NoChatTurn
    /\ agent = "conforming"
    /\ NoBlockCall
    /\ fn = "none"
    /\ fn_arg \in Texts(MaxWords)
    /\ fn_result = None

ExtractFromTextCall ==
    /\ fn = "none"
    /\ fn' = "extract_from_text"
    /\ fn_result' = Returned(ExtractFromText(fn_arg))
    /\ UNCHANGED fn_arg
    /\ UNCHANGED <<runVars, blockVars, chatVars>>

NextDetect ==
    \/ ExtractFromTextCall

SpecDetect == InitDetect /\ [][NextDetect]_vars

\* ------------------------------------------------ model responses as text
\* A text is the sequence of its units: a unit is one punctuation character,
\* one whitespace character, one digit, or an indivisible run of characters
\* (a word of letters, the fence of three backticks).
\* the unit that stands for the three backticks of a code fence
Fence == "<fence>"

Quote == "\""

Whitespace == {" ", "\n"}

Digits == {"1", "2"}

Words ==
    {"a", "json", "null", "days", "day_number", "name", "primary_destination",
     "secondary_destinations"}

Punctuation == {"{", "}", "[", "]", ",", ":"}

IsSpace(u) == u \in Whitespace

\* the first index from i on whose unit is in the set, 0 when there is none
IndexFrom(text, units, i) ==
    LET found == {k \in i..Len(text) : text[k] \in units}
    IN  IF found = {} THEN 0
        ELSE CHOOSE k \in found : \A j \in found : k <= j

\* the last index whose unit is the given one, 0 when there is none
LastIndex(text, unit) ==
    LET found == {k \in 1..Len(text) : text[k] = unit}
    IN  IF found = {} THEN 0
        ELSE CHOOSE k \in found : \A j \in found : j <= k

\* the first index from i on that holds no whitespace, Len(text) + 1 when all
\* that follows is whitespace
SkipSpace(text, i) ==
    LET found == {k \in i..Len(text) : ~IsSpace(text[k])}
    IN  IF found = {} THEN Max(i, Len(text) + 1)
        ELSE CHOOSE k \in found : \A j \in found : k <= j

\* str.strip()
StripText(text) ==
    LET found == {k \in 1..Len(text) : ~IsSpace(text[k])}
    IN  IF found = {} THEN <<>>
        ELSE SubSeq(text, CHOOSE k \in found : \A j \in found : k <= j,
                          CHOOSE k \in found : \A j \in found : j <= k)

\* the first match of code_block_pattern in text, if any
FirstCodeBlock(text) ==
    LET open  == IndexFrom(text, {Fence}, 1)
        tag   == IF open < Len(text) /\ text[open + 1] = "json"
                 THEN open + 2 ELSE open + 1
        start == SkipSpace(text, tag)
        close == IndexFrom(text, {Fence}, start)
    IN  IF open = 0 \/ close = 0 THEN None
        ELSE Some(SubSeq(text, start, close - 1))

\* the object boundaries step of extract_json_from_response
ObjectBoundaries(text) ==
    IF text # <<>> /\ text[1] = "{" THEN text
    ELSE LET start == IndexFrom(text, {"{"}, 1)
             end   == LastIndex(text, "}")
         IN  IF start # 0 /\ end # 0 /\ end > start
             THEN SubSeq(text, start, end) ELSE text

\* extract_json_from_response
ExtractJsonFromResponse(response) ==
    LET text    == StripText(response)
        matches == FirstCodeBlock(text)
    IN  ObjectBoundaries(IF matches # None THEN StripText(matches[1]) ELSE text)

RECURSIVE SplitLines(_)
\* text.split('\n')
SplitLines(text) ==
    LET nl == IndexFrom(text, {"\n"}, 1)
    IN  IF nl = 0 THEN <<text>>
        ELSE <<SubSeq(text, 1, nl - 1)>>
                 \o SplitLines(SubSeq(text, nl + 1, Len(text)))

RECURSIVE JoinLines(_)
\* '\n'.join(lines)
JoinLines(lines) ==
    IF Len(lines) = 1 THEN lines[1]
    ELSE lines[1] \o <<"\n">> \o JoinLines(Tail(lines))

\* re.sub(r'^(\s*)([a-zA-Z_][a-zA-Z0-9_]*)(":\s)', r'\1"\2\3', line)
RepairLine(line) ==
    LET start == SkipSpace(line, 1)
        end   == LET other == {k \in start..Len(line) :
                                  line[k] \notin (Words \cup Digits)}
                 IN  IF other = {} THEN Len(line) + 1
                     ELSE CHOOSE k \in other : \A j \in other : k <= j
    IN  IF /\ start <= Len(line)
           /\ line[start] \in Words
           /\ end + 2 <= Len(line)
           /\ line[end] = Quote
           /\ line[end + 1] = ":"
           /\ IsSpace(line[end + 2])
        THEN SubSeq(line, 1, start - 1) \o <<Quote>>
                 \o SubSeq(line, start, Len(line))
        ELSE line

RECURSIVE RemoveTrailingCommas(_, _)
\* re.sub(r',(\s*[}\]])', r'\1', text), from unit i on
RemoveTrailingCommas(text, i) ==
    IF i > Len(text) THEN <<>>
    ELSE LET next == SkipSpace(text, i + 1)
             trailing == /\ text[i] = ","
                         /\ next <= Len(text)
                         /\ text[next] \in {"}", "]"}
         IN  (IF trailing THEN <<>> ELSE <<text[i]>>)
                 \o RemoveTrailingCommas(text, i + 1)

\* repair_json
RepairJson(text) ==
    LET lines == SplitLines(text)
        repaired_lines == [k \in 1..Len(lines) |-> RepairLine(lines[k])]
    IN  RemoveTrailingCommas(JoinLines(repaired_lines), 1)

\* ------------------------------------------------------------ JSON documents
\* what json.loads returns: None, str, int, list and dict, each tagged
JNull == [tag |-> "null", val |-> <<>>]

JString(content) == [tag |-> "string", val |-> content]

JNumber(digits) == [tag |-> "number", val |-> digits]

JArray(items) == [tag |-> "array", val |-> items]

\* a dict: its members, each a key and a value, in insertion order
JObject(members) == [tag |-> "object", val |-> members]

Member(key, value) == [key |-> key, value |-> value]

\* d[key] = value
Put(members, key, value) ==
    IF \E k \in 1..Len(members) : members[k].key = key
    THEN [k \in 1..Len(members) |->
             IF members[k].key = key THEN Member(key, value) ELSE members[k]]
    ELSE Append(members, Member(key, value))

\* d.get(key, default)
Get(members, key, default) ==
    IF \E k \in 1..Len(members) : members[k].key = key
    THEN (CHOOSE m \in {members[k] : k \in 1..Len(members)} : m.key = key).value
    ELSE default

\* a call that raised the named exception
Raised(exception) == [raised |-> TRUE, value |-> <<exception>>]

JSONDecodeError == Raised("JSONDecodeError")

\* a step of the decoder: whether it succeeded, the value, the index after it
Fail == [ok |-> FALSE, value |-> JNull, next |-> 0]

Ok(value, next) == [ok |-> TRUE, value |-> value, next |-> next]

\* a string literal that opens at unit i; a newline inside it is a control
\* character, which the strict decoder rejects
ParseString(text, i) ==
    LET close == IndexFrom(text, {Quote}, i + 1)
    IN  IF close = 0 THEN Fail
        ELSE IF \E k \in (i + 1)..(close - 1) : text[k] = "\n" THEN Fail
        ELSE Ok(JString(SubSeq(text, i + 1, close - 1)), close + 1)

\* a number that starts at unit i
ParseNumber(text, i) ==
    LET end == LET other == {k \in i..Len(text) : text[k] \notin Digits}
               IN  IF other = {} THEN Len(text) + 1
                   ELSE CHOOSE k \in other : \A j \in other : k <= j
    IN  Ok(JNumber(SubSeq(text, i, end - 1)), end)

RECURSIVE ParseValue(_, _)
RECURSIVE ParseElements(_, _, _)
RECURSIVE ParseMembers(_, _, _)
\* the value that starts at the first unit from i on that is not whitespace
ParseValue(text, i) ==
    LET at == SkipSpace(text, i)
    IN  IF at > Len(text) THEN Fail
        ELSE IF text[at] = Quote THEN ParseString(text, at)
        ELSE IF text[at] \in Digits THEN ParseNumber(text, at)
        ELSE IF text[at] = "null" THEN Ok(JNull, at + 1)
        ELSE IF text[at] = "[" THEN
            LET first == SkipSpace(text, at + 1)
            IN  IF first <= Len(text) /\ text[first] = "]"
                THEN Ok(JArray(<<>>), first + 1)
                ELSE ParseElements(text, at + 1, <<>>)
        ELSE IF text[at] = "{" THEN
            LET first == SkipSpace(text, at + 1)
            IN  IF first <= Len(text) /\ text[first] = "}"
                THEN Ok(JObject(<<>>), first + 1)
                ELSE ParseMembers(text, first, <<>>)
        ELSE Fail

\* the elements of an array from unit i on, after those in items
ParseElements(text, i, items) ==
    LET element == ParseValue(text, i)
        after   == SkipSpace(text, element.next)
    IN  IF ~element.ok \/ after > Len(text) THEN Fail
        ELSE IF text[after] = "]"
             THEN Ok(JArray(Append(items, element.value)), after + 1)
        ELSE IF text[after] = ","
             THEN ParseElements(text, after + 1, Append(items, element.value))
        ELSE Fail

\* the members of an object whose next key opens at unit i, after those in
\* members
ParseMembers(text, i, members) ==
    IF i > Len(text) \/ text[i] # Quote THEN Fail
    ELSE LET key   == ParseString(text, i)
             colon == SkipSpace(text, key.next)
         IN  IF ~key.ok \/ colon > Len(text) THEN Fail
             ELSE IF text[colon] # ":" THEN Fail
             ELSE LET value == ParseValue(text, colon + 1)
                      after == SkipSpace(text, value.next)
                      all   == Put(members, key.value.val, value.value)
                  IN  IF ~value.ok \/ after > Len(text) THEN Fail
                      ELSE IF text[after] = "}" THEN Ok(JObject(all), after + 1)
                      ELSE IF text[after] = ","
                           THEN ParseMembers(text, SkipSpace(text, after + 1), all)
                      ELSE Fail

\* json.loads
JsonLoads(text) ==
    LET document == ParseValue(text, 1)
    IN  IF document.ok /\ SkipSpace(text, document.next) > Len(text)
        THEN Returned(document.value)
        ELSE JSONDecodeError

RECURSIVE JsonDumps(_)
RECURSIVE DumpElements(_)
RECURSIVE DumpMembers(_)
\* json.dumps
JsonDumps(value) ==
    CASE value.tag = "null"   -> <<"null">>
      [] value.tag = "string" -> <<Quote>> \o value.val \o <<Quote>>
      [] value.tag = "number" -> value.val
      [] value.tag = "array"  -> <<"[">> \o DumpElements(value.val) \o <<"]">>
      [] value.tag = "object" -> <<"{">> \o DumpMembers(value.val) \o <<"}">>

DumpElements(items) ==
    IF items = <<>> THEN <<>>
    ELSE JsonDumps(Head(items))
             \o (IF Len(items) = 1 THEN <<>>
                 ELSE <<",", " ">> \o DumpElements(Tail(items)))

DumpMembers(members) ==
    IF members = <<>> THEN <<>>
    ELSE <<Quote>> \o Head(members).key \o <<Quote, ":", " ">>
             \o JsonDumps(Head(members).value)
             \o (IF Len(members) = 1 THEN <<>>
                 ELSE <<",", " ">> \o DumpMembers(Tail(members)))

\* ------------------------------------------- parsing the model's responses
\* extract, strict parse, on failure repair and strict parse again
ParseResponse(raw_response) ==
    LET json_str == ExtractJsonFromResponse(raw_response)
        data     == JsonLoads(json_str)
    IN  IF ~data.raised THEN data ELSE JsonLoads(RepairJson(json_str))

\* save_debug_response: filepath.write_text is outside its try block
SaveDebugResponse(write_fails) ==
    IF write_fails THEN Raised("OSError") ELSE Returned(<<>>)

DigitValue(d) == IF d = "1" THEN 1 ELSE 2

RECURSIVE NumberValue(_)
NumberValue(digits) ==
    IF digits = <<>> THEN 0
    ELSE 10 * NumberValue(SubSeq(digits, 1, Len(digits) - 1))
             + DigitValue(Last(digits))

\* DayPlan.model_validate(d): a DayPlan is represented by its day_number, an
\* int or a str of digits; its other fields are left out
IsDayPlan(d) ==
    /\ d.tag = "object"
    /\ LET n == Get(d.val, <<"day_number">>, JNull)
       IN  /\ n.tag \in {"number", "string"}
           /\ n.val # <<>>
           /\ \A k \in 1..Len(n.val) : n.val[k] \in Digits

\* what a for loop over the value visits: the items of a list, the keys of a
\* dict, the characters of a str; None and int are not iterable
Iterate(value) ==
    CASE value.tag = "array"  -> Returned(value.val)
      [] value.tag = "object" ->
            Returned([k \in 1..Len(value.val) |-> JString(value.val[k].key)])
      [] value.tag = "string" ->
            Returned([k \in 1..Len(value.val) |-> JString(<<value.val[k]>>)])
      [] OTHER -> Raised("TypeError")

\* [DayPlan.model_validate(d) for d in days_data]
ValidateDays(days_data) ==
    LET items == Iterate(days_data)
    IN  IF items.raised THEN items
        ELSE IF \E k \in 1..Len(items.value) : ~IsDayPlan(items.value[k])
        THEN Raised("ValidationError")
        ELSE Returned([k \in 1..Len(items.value) |->
                 NumberValue(Get(items.value[k].val, <<"day_number">>, JNull).val)])

\* generate_day_block, from the response of the model on
GenerateDayBlock(arg) ==
    LET debug_path == SaveDebugResponse(arg.debug_write_fails)
        data       == ParseResponse(StripText(arg.response))
    IN  IF debug_path.raised THEN debug_path
        ELSE IF data.raised THEN data
        ELSE IF data.value.tag = "array" THEN ValidateDays(data.value)
        ELSE IF data.value.tag = "object"
        THEN ValidateDays(Get(data.value.val, <<"days">>, JArray(<<>>)))
        ELSE Raised("AttributeError")

\* Itinerary.model_validate(data), ItineraryMetadata.model_validate(data): the
\* model is represented by its document, which must be a dict
ModelValidate(data) ==
    IF data.tag = "object" THEN Returned(data) ELSE Raised("ValidationError")

\* generate_itinerary_json, from the response of the model on
GenerateItineraryJson(arg) ==
    LET debug_path == SaveDebugResponse(arg.debug_write_fails)
        data       == ParseResponse(StripText(arg.response))
    IN  IF debug_path.raised THEN debug_path
        ELSE IF data.raised THEN data
        ELSE ModelValidate(data.value)

\* generate_itinerary_metadata, from the response of the model on
GenerateItineraryMetadata(arg) ==
    LET debug_path == SaveDebugResponse(arg.debug_write_fails)
        data       == ParseResponse(StripText(arg.response))
    IN  IF debug_path.raised THEN debug_path
        ELSE IF data.raised THEN data
        ELSE ModelValidate(data.value)

\* ----------------------------------------- destinations from a conversation
\* TripDestinations: a Destination is represented by its name
TripDestinations(primary, secondary) ==
    [primary |-> primary, secondary |-> secondary]

\* bool(value)
Truthy(value) == value.tag # "null" /\ value.val # <<>>

\* Destination(name=d.get("name", ""), ...) of a dict with a str name
IsDestination(d) ==
    d.tag = "object" /\ Get(d.val, <<"name">>, JString(<<>>)).tag = "string"

NameOf(d) == Get(d.val, <<"name">>, JString(<<>>)).val

\* DestinationDetector._parse_response
ParseDestinations(data) ==
    IF data.tag # "object" THEN Raised("AttributeError")
    ELSE LET pd  == Get(data.val, <<"primary_destination">>, JNull)
             sds == Iterate(Get(data.val, <<"secondary_destinations">>,
                                JArray(<<>>)))
         IN  IF Truthy(pd) /\ pd.tag # "object" THEN Raised("AttributeError")
             ELSE IF Truthy(pd) /\ ~IsDestination(pd)
             THEN Raised("ValidationError")
             ELSE IF sds.raised THEN sds
             ELSE IF \E k \in 1..Len(sds.value) : sds.value[k].tag # "object"
             THEN Raised("AttributeError")
             ELSE IF \E k \in 1..Len(sds.value) : ~IsDestination(sds.value[k])
             THEN Raised("ValidationError")
             ELSE Returned(TripDestinations(
                      IF Truthy(pd) THEN Some(NameOf(pd)) ELSE None,
                      [k \in 1..Len(sds.value) |-> NameOf(sds.value[k])]))

\* json_str.split(marker)[1].split(fence)[0], where the marker opens with the
\* fence: the text between the first marker and the next fence
CodeBlockAfter(text, open, length) ==
    LET close == IndexFrom(text, {Fence}, open + length)
    IN  SubSeq(text, open + length,
               IF close = 0 THEN Len(text) ELSE close - 1)

\* the markdown code block handling of extract_from_conversation
CodeBlock(json_str) ==
    LET tagged == {k \in 1..(Len(json_str) - 1) :
                      json_str[k] = Fence /\ json_str[k + 1] = "json"}
        fenced == IndexFrom(json_str, {Fence}, 1)
    IN  IF tagged # {}
        THEN CodeBlockAfter(json_str,
                            CHOOSE k \in tagged : \A j \in tagged : k <= j, 2)
        ELSE IF fenced # 0 THEN CodeBlockAfter(json_str, fenced, 1)
        ELSE json_str

\* extract_from_conversation, from the reply of the agent on
ExtractFromConversation(full_response) ==
    LET data   == JsonLoads(StripText(CodeBlock(StripText(full_response))))
        result == IF data.raised THEN data ELSE ParseDestinations(data.value)
    IN  IF result \in {JSONDecodeError, Raised("KeyError"), Raised("IndexError")}
        THEN Returned(TripDestinations(None, <<>>))
        ELSE result

\* ------------------------------------------------ the responses considered
MaxStringLen == 2

StringUnits == {"a", ",", "}", " ", Fence}

RECURSIVE StringsUpTo(_)
StringsUpTo(n) ==
    IF n = 0 THEN {<<>>}
    ELSE StringsUpTo(n - 1)
             \cup {Append(t, u) : t \in StringsUpTo(n - 1), u \in StringUnits}

\* values of an object: strings, a number, null, and strings inside an array
\* or inside a nested object
JsonValues ==
    {JString(t) : t \in StringsUpTo(MaxStringLen)}
        \cup {JNumber(<<"1">>), JNumber(<<"1", "2">>), JNull, JArray(<<>>)}
        \cup {JArray(<<JString(t), JNumber(<<"2">>)>>) :
                 t \in StringsUpTo(MaxStringLen)}
        \cup {JObject(<<Member(<<"a">>, JString(t))>>) :
                 t \in StringsUpTo(MaxStringLen)}

\* valid JSON objects of up to two members
JsonObjects ==
    {JObject(<<>>)}
        \cup {JObject(<<Member(<<"a">>, v)>>) : v \in JsonValues}
        \cup {JObject(<<Member(<<"days">>, JNumber(<<"1">>)), Member(<<"a">>, v)>>) :
                 v \in JsonValues}

\* the text with a comma added before its closing brace
WithTrailingComma(text) ==
    SubSeq(text, 1, Len(text) - 1) \o <<",", "}">>

\* the text in a fenced block, tagged json or not
InCodeBlock(text, tagged) ==
    <<Fence>> \o (IF tagged THEN <<"json">> ELSE <<>>) \o <<"\n">>
        \o text \o <<"\n", Fence>>

DayObject(n) ==
    JObject(<<Member(<<"day_number">>,
                     JNumber(<<CHOOSE d \in Digits : DigitValue(d) = n>>))>>)

DayObjects(n) == JArray([k \in 1..n |-> DayObject(k)])

\* a day-range response: the bare array of n day objects
BareArrayResponse(n, fenced) ==
    IF fenced THEN InCodeBlock(JsonDumps(DayObjects(n)), TRUE)
    ELSE JsonDumps(DayObjects(n))

\* a day-range response: the same array wrapped in an object
WrappedResponse(n, fenced) ==
    LET wrapped == JsonDumps(JObject(<<Member(<<"days">>, DayObjects(n))>>))
    IN  IF fenced THEN InCodeBlock(wrapped, TRUE) ELSE wrapped

DayBlockResponses ==
    {BareArrayResponse(n, f) : n \in 0..Cardinality(Digits), f \in BOOLEAN}
        \cup {WrappedResponse(n, f) : n \in 0..Cardinality(Digits), f \in BOOLEAN}

Named(name) == JObject(<<Member(<<"name">>, name)>>)

\* replies to the destination extraction prompt: the structure asked for, and
\* replies that are not of that structure
DestinationDocuments ==
    {JObject(<<Member(<<"primary_destination">>, p),
               Member(<<"secondary_destinations">>, s)>>) :
        p \in {JNull, Named(JString(<<"a">>)), Named(JNumber(<<"1">>)),
               JString(<<"a">>)},
        s \in {JArray(<<>>), JArray(<<Named(JString(<<"a">>))>>), JNull,
               JArray(<<JString(<<"a">>)>>)}}
        \cup {JArray(<<>>), JNull, JNumber(<<"1">>), JString(<<"a">>),
              JObject(<<>>)}

DestinationReplies ==
    {JsonDumps(d) : d \in DestinationDocuments}
        \cup {InCodeBlock(JsonDumps(d), t) : d \in DestinationDocuments,
                                             t \in BOOLEAN}
        \cup {<<>>, <<"a">>, <<"{", Quote, "name", Quote, ":">>,
              <<"a", " ", Fence>>}

Responses ==
    DayBlockResponses
        \cup DestinationReplies
        \cup {JsonDumps(j) : j \in JsonObjects}
        \cup {InCodeBlock(WithTrailingComma(JsonDumps(j)), TRUE) :
                 j \in JsonObjects}

InitText ==
    /\ InitRun
    /\ NoChatTurn
    /\ agent = "conforming"
    /\ NoBlockCall
    /\ fn = "none"
    /\ fn_arg \in [response : Responses, debug_write_fails : BOOLEAN]
    /\ fn_result = None

\* the parsing steps shared by the three generation operations
ParseResponseCall ==
    /\ fn = "none"
    /\ ~fn_arg.debug_write_fails
    /\ fn' = "parse_response"
    /\ fn_result' = ParseResponse(StripText(fn_arg.response))
    /\ UNCHANGED fn_arg
    /\ UNCHANGED <<runVars, blockVars, chatVars>>

GenerateItineraryJsonCall ==
    /\ fn = "none"
    /\ fn' = "generate_itinerary_json"
    /\ fn_result' = GenerateItineraryJson(fn_arg)
    /\ UNCHANGED fn_arg
    /\ UNCHANGED <<runVars, blockVars, chatVars>>

GenerateItineraryMetadataCall ==
    /\ fn = "none"
    /\ fn' = "generate_itinerary_metadata"
    /\ fn_result' = GenerateItineraryMetadata(fn_arg)
    /\ UNCHANGED fn_arg
    /\ UNCHANGED <<runVars, blockVars, chatVars>>

GenerateDayBlockCall ==
    /\ fn = "none"
    /\ fn' = "generate_day_block"
    /\ fn_result' = GenerateDayBlock(fn_arg)
    /\ UNCHANGED fn_arg
    /\ UNCHANGED <<runVars, blockVars, chatVars>>

\* the response is the reply of agent.chat; no debug file is written
ExtractFromConversationCall ==
    /\ fn = "none"
    /\ ~fn_arg.debug_write_fails
    /\ fn' = "extract_from_conversation"
    /\ fn_result' = ExtractFromConversation(fn_arg.response)
    /\ UNCHANGED fn_arg
    /\ UNCHANGED <<runVars, blockVars, chatVars>>

NextText ==
    \/ ParseResponseCall
    \/ GenerateItineraryJsonCall
    \/ GenerateItineraryMetadataCall
    \/ GenerateDayBlockCall
    \/ ExtractFromConversationCall

SpecText == InitText /\ [][NextText]_vars

\* ------------------------------------------------------------ the chat turn
MaxHistory == 5

ChatMessage(role, content) == [role |-> role, content |-> content]

\* what the user types: a text of words
Prompts == {<<"plan", "a", "trip">>, <<"trip", "to", "Tokyo">>, <<"visiting", "Tokyo">>}

\* what the assistant answers
AssistantReplies == {<<"the">>, <<"visiting", "Tokyo">>}

\* what one extract_from_conversation call does: it returns destinations,
\* of which only the primary is read here, or the agent's chat raises
ExtractionOutcomes == {Returned(None), Returned(Some("Tokyo")), Raised("Exception")}

\* session.chat_history[-3:]
LastMessages(history) == SubSeq(history, Max(1, Len(history) - 2), Len(history))

\* a loop body that asks for the extraction at every user message
MutQuickDetectionSkipped(msg) ==
    msg.role = "user"

\* the two conditions under which the loop body calls extract_from_conversation
QuickDetectionFinds(msg) ==
    /\ msg.role = "user"
    /\ ExtractFromText(msg.content) # <<>>

\* what maybe_update_destination did: whether it raised, what it returned,
\* the extract_from_conversation calls it made, and the primary it set
Outcome(raised, returned, n, primary) ==
    [raised |-> raised, returned |-> returned, extraction_calls |-> n,
     primary |-> primary]

RECURSIVE ScanMessages(_, _, _, _, _)
\* the for loop of maybe_update_destination from message k on, after n
\* extract_from_conversation calls
ScanMessages(last_messages, k, answers, n, primary) ==
    IF k > Len(last_messages) THEN Outcome(FALSE, FALSE, n, primary)
    ELSE IF QuickDetectionFinds(last_messages[k])
    THEN LET new_destinations == answers[n + 1]
         IN  IF new_destinations.raised THEN Outcome(TRUE, FALSE, n + 1, primary)
             ELSE IF new_destinations.value # None
             THEN Outcome(FALSE, TRUE, n + 1, new_destinations.value)
             ELSE ScanMessages(last_messages, k + 1, answers, n + 1, primary)
    ELSE ScanMessages(last_messages, k + 1, answers, n, primary)

\* maybe_update_destination(session, agent)
MaybeUpdateDestination(primary, history, answers) ==
    IF primary = None
    THEN ScanMessages(LastMessages(history), 1, answers, 0, primary)
    ELSE Outcome(FALSE, FALSE, 0, primary)

\* a chat turn in which the agent answers the prompt: both messages are
\* appended and maybe_update_destination runs; answers are the outcomes of
\* its first, second and third extract_from_conversation call
ChatTurn(prompt, response, answers) ==
    /\ Len(chat_history) + 2 <= MaxHistory
    /\ LET history == chat_history \o <<ChatMessage("user", prompt),
                                        ChatMessage("assistant", response)>>
           outcome == MaybeUpdateDestination(session_primary, history, answers)
       IN  /\ chat_history' = history
           /\ session_primary' = outcome.primary
           /\ agent_primary' = IF outcome.returned THEN outcome.primary
                               ELSE agent_primary
           /\ turn' = Some([primary_before |-> session_primary,
                            chat_raised |-> FALSE,
                            raised |-> outcome.raised,
                            returned |-> outcome.returned,
                            extraction_calls |-> outcome.extraction_calls])
    /\ UNCHANGED <<runVars, blockVars, fnVars>>

\* a chat turn in which agent.chat raises: the prompt stays in the history
\* without an answer and maybe_update_destination is not reached
ChatTurnRaises(prompt) ==
    /\ Len(chat_history) + 1 <= MaxHistory
    /\ chat_history' = Append(chat_history, ChatMessage("user", prompt))
    /\ turn' = Some([primary_before |-> session_primary,
                     chat_raised |-> TRUE,
                     raised |-> FALSE,
                     returned |-> FALSE,
                     extraction_calls |-> 0])
    /\ UNCHANGED <<session_primary, agent_primary>>
    /\ UNCHANGED <<runVars, blockVars, fnVars>>

InitChat ==
    /\ InitRun
    /\ NoChatTurn
    /\ agent = "conforming"
    /\ NoBlockCall
    /\ NoFunctionCall

NextChat ==
    \/ \E prompt \in Prompts, response \in AssistantReplies,
          answers \in [1..3 -> ExtractionOutcomes] :
           ChatTurn(prompt, response, answers)
    \/ \E prompt \in Prompts : ChatTurnRaises(prompt)

SpecChat == InitChat /\ [][NextChat]_vars

\* ------------------------------------------------------------ claim helpers
Final == Last(snapshots)

\* the generate_day_block calls of this run that returned
Successful == SelectSeq(calls, LAMBDA c : ~c.raised)

\* the days those calls returned, in call order
RECURSIVE Concat(_)
Concat(cs) == IF cs = <<>> THEN <<>> ELSE Concat(SubSeq(cs, 1, Len(cs) - 1)) \o Last(cs).days

\* how many days the requests of a list of calls ask for
RECURSIVE Requested(_)
Requested(cs) ==
    IF cs = <<>> THEN 0
    ELSE Requested(SubSeq(cs, 1, Len(cs) - 1)) + (Last(cs).end_day - Last(cs).start_day + 1)

Occurrences(days, d) == Cardinality({i \in 1..Len(days) : days[i] = d})

Elems(days) == {days[i] : i \in 1..Len(days)}

\* the same days, each as often, whatever the order
SameDays(a, b) ==
    /\ Len(a) = Len(b)
    /\ \A d \in Elems(a) \cup Elems(b) : Occurrences(a, d) = Occurrences(b, d)

Ascending(days) == \A i \in 1..(Len(days) - 1) : days[i] <= days[i + 1]

Distinct(days) == \A i, j \in 1..Len(days) : i # j => days[i] # days[j]

\* the days the run had before its first block: the initial snapshot's itinerary
PreExisting == snapshots[1].days

DayBlockFailed == pc = "done" /\ failure = "day_block"

\* C1: when a generate_day_block call raises, the final snapshot's itinerary
\* holds exactly the pre-existing days and the days the earlier successful calls
\* of the run returned, and completed_days is their count.
C1_FailureKeepsCommittedDays ==
    DayBlockFailed =>
        /\ SameDays(Final.days, PreExisting \o Concat(Successful))
        /\ Final.progress.completed_days = Len(PreExisting) + Len(Concat(Successful))

C1_Witness ==
    /\ DayBlockFailed
    /\ mode = "resume"
    /\ agent = "arbitrary"
    /\ Len(Successful) >= 1
    /\ Concat(Successful) # <<>>

\* C2 as stated: after N >= 1 successful blocks, whatever they returned, a
\* failure ends with status partial, completed_days the total size of the N
\* blocks and an error_message.
C2_Original ==
    (DayBlockFailed /\ Len(Successful) >= 1) =>
        /\ Final.progress.status = "partial"
        /\ Final.progress.completed_days = Requested(Successful)
        /\ Final.progress.error_message # None

\* each successful call returned as many days as its request asks for
CountsAsRequested ==
    \A i \in 1..Len(Successful) :
        Len(Successful[i].days) = Successful[i].end_day - Successful[i].start_day + 1

\* C2 amended: after N >= 1 successful blocks that each returned as many days as
\* requested, a failure ends with status partial, completed_days the number of
\* pre-existing days plus the total size of the N blocks, and an error_message.
C2_PartialAfterFullBlocks ==
    (DayBlockFailed /\ Len(Successful) >= 1 /\ CountsAsRequested) =>
        /\ Final.progress.status = "partial"
        /\ Final.progress.completed_days = Len(PreExisting) + Requested(Successful)
        /\ Final.progress.error_message # None

C2_Witness ==
    /\ DayBlockFailed
    /\ mode = "fresh"
    /\ Len(Successful) = 2
    /\ CountsAsRequested
    /\ block_size = 3
    /\ Final.progress.completed_days = 6

\* C3: when the metadata call raises, the run yields one snapshot and ends: status
\* error, completed_days 0, no days, no metadata, an error_message, and no
\* generate_day_block call.
C3_MetadataFailure ==
    failure = "metadata" =>
        /\ pc \in {"done", "idle"}
        /\ Len(snapshots) = 1
        /\ Final.progress.status = "error"
        /\ Final.progress.completed_days = 0
        /\ Final.days = <<>>
        /\ Final.metadata = None
        /\ Final.progress.error_message # None
        /\ calls = <<>>

C3_Witness == failure = "metadata" /\ pc = "done" /\ Len(snapshots) = 1

\* C4: in a fresh run with metadata total_days T >= 1, block_size B >= 1 and an
\* agent that returns the requested days, the calls are the blocks of (T, B) in
\* ascending order, one each, and the run ends complete with T days.
C4_FreshRunCallsBlocks ==
    (mode = "fresh" /\ agent = "conforming" /\ block_size >= 1 /\ metadata # None
        /\ metadata[1].total_days >= 1) =>
        LET T == metadata[1].total_days
            B == block_size
        IN  /\ \A i \in 1..Len(calls) :
                  /\ calls[i].start_day = (i - 1) * B + 1
                  /\ calls[i].end_day = Min(i * B, T)
                  /\ calls[i].start_day <= T
            /\ (pc = "done" /\ failure = "none") =>
                  /\ Len(calls) = (T + B - 1) \div B
                  /\ Final.progress.status = "complete"
                  /\ Len(Final.days) = T

C4_Witness ==
    /\ mode = "fresh"
    /\ agent = "conforming"
    /\ pc = "done"
    /\ failure = "none"
    /\ block_size = 2
    /\ metadata = Some([total_days |-> 5])
    /\ Len(calls) = 3
    /\ <<calls[3].start_day, calls[3].end_day>> = <<5, 5>>

\* C5: the first generate_day_block call of a resumed run requests
\* start_day = k + 1 and end_day = min(k + block_size, T), k the number of
\* existing days and T = max(1, metadata.total_days).
C5_ResumeStartsAfterExisting ==
    (mode = "resume" /\ calls # <<>>) =>
        LET k == Len(PreExisting)
            T == Max(1, metadata[1].total_days)
        IN  /\ calls[1].start_day = k + 1
            /\ calls[1].end_day = Min(k + block_size, T)

C5_Witness ==
    /\ mode = "resume"
    /\ calls # <<>>
    /\ Len(PreExisting) = 4
    /\ metadata = Some([total_days |-> 10])
    /\ block_size = 3
    /\ <<calls[1].start_day, calls[1].end_day>> = <<5, 7>>

\* C6: when an agent call raises, the generator does not raise: it yields a
\* final snapshot with status partial or error and an error_message, and ends.
C6_AgentFailureIsYielded ==
    failure # "none" =>
        /\ pc \in {"done", "idle"}
        /\ Final.progress.status \in {"partial", "error"}
        /\ Final.progress.error_message # None

C6_Witness ==
    /\ failure = "day_block"
    /\ pc = "done"
    /\ mode = "resume"
    /\ Final.progress.status = "partial"

\* C7: in every snapshot the day_number values of itinerary.days are pairwise
\* distinct.
C7_DayNumbersDistinct ==
    \A i \in 1..Len(snapshots) : Distinct(snapshots[i].days)

Partitions(bs, total_days, size) ==
    /\ Len(bs) >= 1
    /\ bs[1][1] = 1
    /\ bs[Len(bs)][2] = total_days
    /\ \A i \in 1..(Len(bs) - 1) :
          /\ bs[i + 1][1] = bs[i][2] + 1
          /\ bs[i][2] - bs[i][1] + 1 = size
    /\ bs[Len(bs)][2] - bs[Len(bs)][1] + 1 \in 1..size

RECURSIVE SumOfLengths(_)
SumOfLengths(bs) ==
    IF bs = <<>> THEN 0
    ELSE SumOfLengths(SubSeq(bs, 1, Len(bs) - 1)) + (Last(bs)[2] - Last(bs)[1] + 1)

BlocksAsSpecified(r, total_days, size) ==
    /\ ~r.raised
    /\ Partitions(r.value, total_days, size)
    /\ SumOfLengths(r.value) = total_days
    /\ (total_days = 7 /\ size = 3) => r.value = << <<1, 3>>, <<4, 6>>, <<7, 7>> >>
    /\ (total_days = 1 /\ size = 3) => r.value = << <<1, 1>> >>

\* C9: for total_days >= 1 and block_size >= 1, blocks(total_days, block_size)
\* partitions [1, total_days] into blocks of block_size days, the last one
\* possibly shorter, the lengths summing to total_days.
C9_BlocksPartition ==
    (cdb_args[1] >= 1 /\ cdb_args[2] >= 1) =>
        /\ cdb_result # None => BlocksAsSpecified(cdb_result[1], cdb_args[1], cdb_args[2])
        /\ gen_result # None => BlocksAsSpecified(gen_result[1], cdb_args[1], cdb_args[2])

C9_Witness ==
    /\ cdb_args = <<7, 3>>
    /\ cdb_result # None
    /\ gen_result # None

\* C10: blocks(total_days, block_size) returns a list for every integer
\* total_days and block_size, without raising.
C10_BlocksTotal ==
    /\ cdb_result # None => ~cdb_result[1].raised
    /\ gen_result # None => ~gen_result[1].raised

\* C11: a resumed run makes no generate_itinerary_metadata call, and every
\* snapshot it yields carries the metadata it was given.
C11_ResumeKeepsMetadata ==
    (mode = "resume" /\ pc # "idle") =>
        /\ metadata_calls = 0
        /\ \A i \in 1..Len(snapshots) : snapshots[i].metadata = gen_state.metadata

C11_Witness ==
    /\ mode = "resume"
    /\ pc = "done"
    /\ Len(snapshots) >= 3
    /\ Len(Successful) >= 1

\* C19: once a snapshot with status complete has been yielded, the run makes no
\* further generate_day_block call (call i is made after snapshots 1..i).
C19_NoCallAfterComplete ==
    \A i \in 1..Len(calls) :
        \A j \in 1..i : snapshots[j].progress.status # "complete"

\* C20: when a generate_day_block call raises, the final status is partial if
\* completed_days > 0 and error otherwise, completed_days counting the
\* pre-existing days: a resume failing on its first block ends partial with
\* completed_days = len(existing days), a fresh run failing on its first block
\* ends error with completed_days = 0.
C20_PartialIffDaysCommitted ==
    DayBlockFailed =>
        LET committed == Len(PreExisting) + Len(Concat(Successful))
        IN  /\ Final.progress.status = (IF committed > 0 THEN "partial" ELSE "error")
            /\ (mode = "resume" /\ Len(calls) = 1) =>
                  /\ Final.progress.status = "partial"
                  /\ Final.progress.completed_days = Len(PreExisting)
                  /\ Len(PreExisting) > 0
            /\ (mode = "fresh" /\ Len(calls) = 1) =>
                  /\ Final.progress.status = "error"
                  /\ Final.progress.completed_days = 0

C20_Witness ==
    /\ DayBlockFailed
    /\ mode = "resume"
    /\ Len(calls) = 1
    /\ Final.progress.status = "partial"

\* C15: every member c of the category enumeration, written as its string
\* value and parsed back through the coercion, is c again.
C15_CategoryRoundTrips ==
    fn = "round_trip" => fn_result = Returned(fn_arg.text)

\* C16: for any input string the coercion returns a member and does not raise;
\* an alias gives its mapped member, a string that is neither an alias nor an
\* enum value gives sightseeing.
C16_CoercionTotal ==
    fn = "normalize_activity_type" =>
        LET word == fn_arg.text
        IN  /\ ~fn_result.raised
            /\ fn_result.value \in ActivityTypeValues
            /\ word \in AliasKeys => fn_result.value = AliasOf(word)
            /\ word \notin (AliasKeys \cup ActivityTypeValues) =>
                  fn_result.value = "sightseeing"

C16_Witness ==
    /\ fn = "normalize_activity_type"
    /\ fn_arg = Str("kayaking", TRUE, TRUE)
    /\ fn_result = Returned("sightseeing")

\* C18: for any input text, no element of the result of extract_from_text is,
\* compared case-insensitively, one of the stopwords.
C18_NoStopwordReturned ==
    fn = "extract_from_text" =>
        \A k \in 1..Len(fn_result.value) : ~IsStopword(fn_result.value[k])

\* C12: when the response payload is a bare JSON array of n >= 1 day objects,
\* fenced or not, generate_day_block returns the n DayPlans in order, the same
\* result as for the wrapped object holding the same array.
C12_BareArrayAccepted ==
    \A n \in 1..Cardinality(Digits), fenced \in BOOLEAN :
        (/\ fn = "generate_day_block"
         /\ ~fn_arg.debug_write_fails
         /\ fn_arg.response = BareArrayResponse(n, fenced)) =>
            /\ fn_result = Returned(Days(1, n))
            /\ fn_result = GenerateDayBlock(
                   [response |-> WrappedResponse(n, fenced),
                    debug_write_fails |-> FALSE])

\* C13: for every valid JSON object J, the text of J with a trailing comma
\* before a closing brace, in a fenced json block, comes out of extraction,
\* strict parse, repair and strict parse again as the structure J.
C13_RepairRoundTrips ==
    \A j \in JsonObjects :
        (/\ fn = "parse_response"
         /\ fn_arg.response = InCodeBlock(WithTrailingComma(JsonDumps(j)), TRUE)) =>
            /\ fn_result = Returned(j)
            /\ fn_result = JsonLoads(JsonDumps(j))

\* C14: when the write of the debug file fails, generate_itinerary_json,
\* generate_itinerary_metadata and generate_day_block return the same result
\* as when the write succeeds.
C14_DebugWriteNonFatal ==
    LET saved == [fn_arg EXCEPT !.debug_write_fails = FALSE]
    IN  /\ (fn = "generate_itinerary_json" /\ fn_arg.debug_write_fails) =>
               fn_result = GenerateItineraryJson(saved)
        /\ (fn = "generate_itinerary_metadata" /\ fn_arg.debug_write_fails) =>
               fn_result = GenerateItineraryMetadata(saved)
        /\ (fn = "generate_day_block" /\ fn_arg.debug_write_fails) =>
               fn_result = GenerateDayBlock(saved)

\* the reply holds the structure asked for: a dict whose primary_destination
\* is empty or a dict with a str name and whose secondary_destinations is a
\* list of such dicts
ParsesToDestinations(reply) ==
    LET data == JsonLoads(StripText(CodeBlock(StripText(reply))))
    IN  /\ ~data.raised
        /\ data.value.tag = "object"
        /\ LET pd  == Get(data.value.val, <<"primary_destination">>, JNull)
               sds == Get(data.value.val, <<"secondary_destinations">>,
                          JArray(<<>>))
           IN  /\ Truthy(pd) => IsDestination(pd)
               /\ sds.tag = "array"
               /\ \A k \in 1..Len(sds.val) : IsDestination(sds.val[k])

\* C17: whenever the reply cannot be parsed into the primary/secondary
\* destination structure, extract_from_conversation returns a TripDestinations
\* with no primary and no secondary destinations and does not raise.
C17_ParseFailureYieldsEmpty ==
    (fn = "extract_from_conversation" /\ ~ParsesToDestinations(fn_arg.response)) =>
        fn_result = Returned(TripDestinations(None, <<>>))

\* C21: after a generate_day_block call raises, the remaining blocks are
\* abandoned: the raising call is the last agent call of the run, exactly one
\* more snapshot (the final one) is yielded, and the run has ended.
C21_FailureAbandonsBlocks ==
    /\ [](failure = "day_block" =>
            /\ pc \in {"done", "idle"}
            /\ Last(calls).raised
            /\ \A i \in 1..(Len(calls) - 1) : ~calls[i].raised
            /\ Len(snapshots) = Len(calls) + 1
            /\ Last(snapshots).progress.status \in {"partial", "error"})
    /\ [][(failure = "day_block" /\ failure' = "day_block") =>
            /\ calls' = calls
            /\ snapshots' = snapshots
            /\ metadata_calls' = metadata_calls]_vars

C21_Witness ==
    /\ failure = "day_block"
    /\ pc = "done"
    /\ idx < Len(blocks)
    /\ Len(calls) >= 2

\* C22: within one run the status only moves forward: once a snapshot with
\* status complete, partial or error has been yielded, no later snapshot of
\* that run has a different status.
C22_StatusOnlyForward ==
    \A i \in 1..Len(snapshots) : \A j \in i..Len(snapshots) :
        snapshots[i].progress.status \in {"complete", "partial", "error"} =>
            snapshots[j].progress.status = snapshots[i].progress.status

\* the days returned by the calls before call i of the current run
RECURSIVE ReturnedBefore(_)
ReturnedBefore(i) ==
    IF i <= 1 THEN <<>> ELSE ReturnedBefore(i - 1) \o calls[i - 1].days

\* C23: every generate_day_block call receives as previous_days the
\* pre-existing days of a resumed run followed by every day returned by the
\* earlier successful blocks of this run; the first call of a fresh run
\* receives an empty list.
C23_PreviousDaysAccumulate ==
    /\ \A i \in 1..Len(calls) :
          /\ calls[i].previous_days = PreExisting \o ReturnedBefore(i)
          /\ \A k \in 1..(i - 1) : ~calls[k].raised
    /\ (mode = "fresh" /\ calls # <<>>) => calls[1].previous_days = <<>>
    /\ (mode = "resume" /\ calls # <<>>) =>
          calls[1].previous_days = existing_days

C23_Witness ==
    /\ mode = "resume"
    /\ Len(calls) >= 2
    /\ Last(calls).previous_days = existing_days \o calls[1].days
    /\ calls[1].days # <<>>

\* C25: every snapshot with status complete has completed_days >= total_days
\* and an itinerary of at least total_days days, for any agent behaviour and
\* any block_size.
C25_CompleteHoldsAllDays ==
    \A i \in 1..Len(snapshots) :
        snapshots[i].progress.status = "complete" =>
            /\ snapshots[i].progress.completed_days >= snapshots[i].progress.total_days
            /\ Len(snapshots[i].days) >= snapshots[i].progress.total_days

\* C26: in a session of one fresh run and the resumes after it, each resume
\* given the metadata and the itinerary kept from the previous run, with an
\* agent whose successful calls return exactly the requested days and with
\* block_size >= 1: whenever a run ends with status complete, itinerary.days
\* is exactly the days 1..total_days, each once, in ascending order.
C26_ResumedRunsCompleteExactly ==
    (/\ agent = "conforming"
     /\ block_size >= 1
     /\ pc = "done"
     /\ Final.progress.status = "complete") =>
        /\ itinerary = Days(1, progress.total_days)
        /\ Final.days = Days(1, progress.total_days)

C26_Witness ==
    /\ agent = "conforming"
    /\ runs = MaxRuns
    /\ mode = "resume"
    /\ pc = "done"
    /\ Final.progress.status = "complete"
    /\ Len(calls) >= 2
    /\ block_size # DefaultBlockSize
    /\ existing_days # <<>>

\* C27: in every snapshot yielded by a fresh or resumed run, completed_days
\* equals len(itinerary.days), and completed_days never decreases from one
\* snapshot of a run to the next.
C27_CompletedDaysCountsItinerary ==
    /\ \A i \in 1..Len(snapshots) :
          snapshots[i].progress.completed_days = Len(snapshots[i].days)
    /\ \A i \in 1..(Len(snapshots) - 1) :
          snapshots[i].progress.completed_days
              <= snapshots[i + 1].progress.completed_days

C27_Witness ==
    /\ mode = "resume"
    /\ Len(snapshots) >= 3
    /\ snapshots[1].progress.completed_days > 0
    /\ snapshots[1].progress.completed_days < snapshots[2].progress.completed_days
    /\ snapshots[2].progress.completed_days < snapshots[3].progress.completed_days

\* C28: resume_itinerary_generation never mutates the existing_itinerary passed
\* by the caller: at every step of the resumed run, successful or failed, the
\* caller's itinerary has the days it had before the call, in the same order;
\* new days appear only in the itinerary the generator yields.
C28_ResumeLeavesCallerItinerary ==
    (mode = "resume" /\ pc # "idle") =>
        /\ session_itinerary = existing_days
        /\ session_itinerary = snapshots[1].days

C28_Witness ==
    /\ mode = "resume"
    /\ pc = "done"
    /\ Len(Successful) >= 1
    /\ Len(itinerary) > Len(session_itinerary)

\* ceil(a / b) for b >= 1
CeilDiv(a, b) == -((-a) \div b)

Running == pc \in {"generate_days", "block", "after_loop"}

\* C29 as stated: with block_size >= 1 a run makes at most one
\* generate_itinerary_metadata call (none on resume) and at most
\* ceil((total_days - pre-existing days) / block_size) generate_day_block
\* calls, yields finitely many snapshots, ends, and its last snapshot has
\* status complete, partial or error.
C29_Original ==
    /\ []((mode # "none" /\ block_size >= 1) =>
            /\ metadata_calls <= 1
            /\ mode = "resume" => metadata_calls = 0
            /\ Len(calls) <= CeilDiv(progress.total_days - Len(PreExisting), block_size)
            /\ Len(snapshots) <= Len(calls) + 2
            /\ pc = "done" =>
                  Final.progress.status \in {"complete", "partial", "error"})
    /\ (Running /\ block_size >= 1) ~> (pc = "done")

\* C29 amended: the same, the bound on the generate_day_block calls being the
\* number of blocks, which is zero when the pre-existing days are more than
\* total_days.
C29_RunTerminates ==
    /\ []((mode # "none" /\ block_size >= 1) =>
            /\ metadata_calls <= 1
            /\ mode = "resume" => metadata_calls = 0
            /\ Len(calls) <= Max(0, CeilDiv(progress.total_days - Len(PreExisting),
                                            block_size))
            /\ Len(snapshots) <= Len(calls) + 2
            /\ pc = "done" =>
                  Final.progress.status \in {"complete", "partial", "error"})
    /\ (Running /\ block_size >= 1) ~> (pc = "done")

C29_Witness ==
    /\ pc = "done"
    /\ block_size = 2
    /\ mode = "resume"
    /\ Len(calls) = CeilDiv(progress.total_days - Len(PreExisting), block_size)
    /\ Len(calls) >= 2
    /\ (progress.total_days - Len(PreExisting)) % block_size = 1
    /\ Final.progress.status = "complete"

\* the user messages among the last three of the history in which the
\* pattern pre-filter finds a candidate
RecentCandidates ==
    {k \in DOMAIN LastMessages(chat_history) :
        /\ LastMessages(chat_history)[k].role = "user"
        /\ ExtractFromText(LastMessages(chat_history)[k].content) # <<>>}

ReachedDetection == turn # None /\ ~turn[1].chat_raised

\* C24: a chat turn calls extract_from_conversation only when no primary
\* destination was set and extract_from_text found a candidate in a user
\* message among the last three; a turn whose recent user messages yield
\* no candidate makes no extraction call.
C24_ExtractionIsGated ==
    turn # None =>
        /\ turn[1].extraction_calls > 0 =>
              /\ turn[1].primary_before = None
              /\ RecentCandidates # {}
              /\ ~turn[1].chat_raised
        /\ RecentCandidates = {} => turn[1].extraction_calls = 0
        /\ turn[1].primary_before # None => turn[1].extraction_calls = 0

C24_Witness ==
    /\ ReachedDetection
    /\ turn[1].primary_before = None
    /\ RecentCandidates = {}
    /\ \E k \in DOMAIN LastMessages(chat_history) :
          LastMessages(chat_history)[k].role = "user"
    /\ \E k \in DOMAIN LastMessages(chat_history) :
          /\ LastMessages(chat_history)[k].role = "assistant"
          /\ ExtractFromText(LastMessages(chat_history)[k].content) # <<>>
    /\ turn[1].extraction_calls = 0

\* C30: one invocation of maybe_update_destination makes at most one
\* extract_from_conversation call.
C30_AtMostOneExtraction ==
    ReachedDetection => turn[1].extraction_calls <= 1

====
